---- MODULE Spec2Model ----
(***************************************************************************)
(* A model of the sdf package: 2D and 3D signed distance functions built   *)
(* by primitive and combinator constructors (sdf2.go, the 3D file) and     *)
(* evaluated by recursive descent.                                         *)
(*                                                                         *)
(* NUMBERS.  A float64 is modelled in half units: the integer 2*n stands   *)
(* for the real number n, and an odd integer 2*n+1 stands for a real       *)
(* strictly between n and n+1.  Every input (coordinate, radius, size,     *)
(* step, offset) is a whole number, so it is even.  Sums, differences,     *)
(* negation, min and max of such values are exact; the only source of odd  *)
(* values is the square root of a non-square, which lands strictly         *)
(* between two whole numbers.  The order of two modelled values is         *)
(* therefore the order of the reals they stand for whenever one of them is *)
(* a whole number, and in particular the sign of a distance is exact.      *)
(*                                                                         *)
(* ANGLES.  An angle is [q, w]: q quarter turns plus the polar angle of    *)
(* the vector w, which lies in the first quadrant [0, pi/2).  Rotations by *)
(* quarter turns are exact on whole numbers, so the instancing counts the  *)
(* model covers for angular copies are 1, 2 and 4.                         *)
(***************************************************************************)
EXTENDS Integers, Sequences, FiniteSets, TLC

\* ------------------------------------------------------------------------
\* Bounds of the model.

\* Query points have whole coordinates in -GridMax .. GridMax.
GridMax == 3
\* A tree has at most MaxDepth combinators on any path from root to leaf.
MaxDepth == 1
NumCallers == 2
MaxTriangles == 2

\* ------------------------------------------------------------------------
\* Scalars.

\* The float64 for the whole number n.
F(n) == 2 * n

MaxFloat64 == 1000000

Min(a, b) == IF a < b THEN a ELSE b
Max(a, b) == IF a > b THEN a ELSE b
Abs(a) == IF a < 0 THEN -a ELSE a

\* a * b.
Mul(a, b) == (a * b) \div 2

\* a / b, for the divisions the package makes (b = 2, or b = +-1).
Div(a, b) == IF b < 0 THEN -((2 * a) \div (-b)) ELSE (2 * a) \div b

\* The largest r with r * r <= n.
ISqrt(n) == CHOOSE r \in 0..n : r * r <= n /\ (r + 1) * (r + 1) > n

\* math.Sqrt: exact on the square of a whole number, and otherwise the odd
\* value between the two whole numbers the root lies between.
Sqrt(s) ==
    LET m == s \div 2
        r == ISqrt(m)
    IN IF s % 2 = 0 /\ r * r = m THEN 2 * r ELSE 2 * r + 1

\* ------------------------------------------------------------------------
\* V2: a 2D vector.

V2(x, y) == [X |-> x, Y |-> y]
V2Add(a, b) == V2(a.X + b.X, a.Y + b.Y)
V2Sub(a, b) == V2(a.X - b.X, a.Y - b.Y)
V2Mul(a, b) == V2(Mul(a.X, b.X), Mul(a.Y, b.Y))
V2Negate(a) == V2(-a.X, -a.Y)
V2Abs(a) == V2(Abs(a.X), Abs(a.Y))
V2Min(a, b) == V2(Min(a.X, b.X), Min(a.Y, b.Y))
V2Max(a, b) == V2(Max(a.X, b.X), Max(a.Y, b.Y))
V2MulScalar(a, k) == V2(Mul(a.X, k), Mul(a.Y, k))
V2AddScalar(a, k) == V2(a.X + k, a.Y + k)
V2SubScalar(a, k) == V2(a.X - k, a.Y - k)
V2Dot(a, b) == Mul(a.X, b.X) + Mul(a.Y, b.Y)
V2Length2(a) == Mul(a.X, a.X) + Mul(a.Y, a.Y)
V2Length(a) == Sqrt(V2Length2(a))
V2Equals(a, b, tolerance) ==
    Abs(a.X - b.X) <= tolerance /\ Abs(a.Y - b.Y) <= tolerance

\* Normalize: the unit vector of an axis-aligned vector (the zero vector for
\* the zero vector); the polygons of the model have axis-aligned edges.
V2Normalize(a) ==
    LET l == V2Length(a)
    IN IF l = 0 THEN a ELSE V2(Div(a.X, l), Div(a.Y, l))

\* V2Set.Min / V2Set.Max: the component-wise extremes of a sequence of V2.
RECURSIVE V2SetMin(_)
V2SetMin(vs) ==
    IF Len(vs) = 1 THEN vs[1] ELSE V2Min(vs[1], V2SetMin(Tail(vs)))
RECURSIVE V2SetMax(_)
V2SetMax(vs) ==
    IF Len(vs) = 1 THEN vs[1] ELSE V2Max(vs[1], V2SetMax(Tail(vs)))

\* V2i: a pair of ints (counts are plain integers, not floats).
V2i(a, b) == <<a, b>>
V2iSubScalar(n, k) == <<n[1] - k, n[2] - k>>
V2iToV2(n) == V2(F(n[1]), F(n[2]))

\* ------------------------------------------------------------------------
\* Box2: an axis-aligned box.

Box2(min, max) == [Min |-> min, Max |-> max]
NewBox2(center, size) ==
    LET half == V2MulScalar(size, 1)
    IN Box2(V2Sub(center, half), V2Add(center, half))
Box2Size(b) == V2Sub(b.Max, b.Min)
Box2Center(b) == V2Add(b.Min, V2MulScalar(Box2Size(b), 1))
Box2Extend(a, b) == Box2(V2Min(a.Min, b.Min), V2Max(a.Max, b.Max))
Box2Translate(a, v) == Box2(V2Add(a.Min, v), V2Add(a.Max, v))
Box2Vertices(a) ==
    << a.Min, V2(a.Max.X, a.Min.Y), V2(a.Min.X, a.Max.Y), a.Max >>

\* ------------------------------------------------------------------------
\* M33: a 2D affine transform, rows (x00 x01 x02), (x10 x11 x12), (0 0 1).

M33(x00, x01, x02, x10, x11, x12) ==
    [x00 |-> x00, x01 |-> x01, x02 |-> x02,
     x10 |-> x10, x11 |-> x11, x12 |-> x12]
Identity2d == M33(F(1), 0, 0, 0, F(1), 0)
Translate2d(v) == M33(F(1), 0, v.X, 0, F(1), v.Y)
\* Rotate2d by q quarter turns (counter-clockwise).
Rotate2d(q) ==
    CASE q % 4 = 0 -> M33(F(1), 0, 0, 0, F(1), 0)
      [] q % 4 = 1 -> M33(0, F(-1), 0, F(1), 0, 0)
      [] q % 4 = 2 -> M33(F(-1), 0, 0, 0, F(-1), 0)
      [] q % 4 = 3 -> M33(0, F(1), 0, F(-1), 0, 0)
M33MulPosition(a, p) ==
    V2(Mul(a.x00, p.X) + Mul(a.x01, p.Y) + a.x02,
       Mul(a.x10, p.X) + Mul(a.x11, p.Y) + a.x12)
M33Mul(a, b) ==
    M33(Mul(a.x00, b.x00) + Mul(a.x01, b.x10),
        Mul(a.x00, b.x01) + Mul(a.x01, b.x11),
        Mul(a.x00, b.x02) + Mul(a.x01, b.x12) + a.x02,
        Mul(a.x10, b.x00) + Mul(a.x11, b.x10),
        Mul(a.x10, b.x01) + Mul(a.x11, b.x11),
        Mul(a.x10, b.x02) + Mul(a.x11, b.x12) + a.x12)
M33Determinant(a) == Mul(a.x00, a.x11) - Mul(a.x01, a.x10)
\* Inverse: the adjugate over the determinant.
M33Inverse(a) ==
    LET d == M33Determinant(a)
    IN M33(Div(a.x11, d), Div(-a.x01, d),
           Div(Mul(a.x01, a.x12) - Mul(a.x11, a.x02), d),
           Div(-a.x10, d), Div(a.x00, d),
           Div(Mul(a.x10, a.x02) - Mul(a.x00, a.x12), d))
\* V2Set.MulVertices: every vertex through the matrix.
M33MulVertices(vs, a) == [i \in DOMAIN vs |-> M33MulPosition(a, vs[i])]
\* MulBox: the box of the transformed corners.
M33MulBox(a, b) ==
    LET vs == M33MulVertices(Box2Vertices(b), a)
    IN Box2(V2SetMin(vs), V2SetMax(vs))

\* ------------------------------------------------------------------------
\* Angles, in quarter turns.

TAU == 4
PI == 2

Angle(q, w) == [q |-> q, w |-> w]
\* math.Atan2(y, x): the angle of (x, y) in (-pi, pi]; Atan2(0, 0) = 0.
Atan2(y, x) ==
    CASE x > 0 /\ y >= 0 -> Angle(0, V2(x, y))
      [] x <= 0 /\ y > 0 -> Angle(1, V2(y, -x))
      [] x < 0 /\ y = 0 -> Angle(2, V2(-x, 0))
      [] x < 0 /\ y < 0 -> Angle(-2, V2(-x, -y))
      [] x >= 0 /\ y < 0 -> Angle(-1, V2(-y, x))
      [] OTHER -> Angle(0, V2(0, 0))
\* SawTooth(x, period): x reduced into [0, period).
SawTooth(x, period) == Angle(x.q % period, x.w)
\* PolarToXY(r, theta): the point at distance r in the direction theta; the
\* vector of the angle has length r wherever the package calls this.
PolarToXY(r, theta) == M33MulPosition(Rotate2d(theta.q), theta.w)

\* ------------------------------------------------------------------------
\* Blending functions (MinFunc, MaxFunc), named by their function.

NormalMin(a, b, k) == Min(a, b)
RoundMin(a, b, k) ==
    LET u == V2Max(V2(k - a, k - b), V2(0, 0))
    IN Max(k, Min(a, b)) - V2Length(u)
NormalMax(a, b, k) == Max(a, b)
RoundMax(a, b, k) == -RoundMin(-a, -b, k)

\* A call through a stored MinFunc / MaxFunc value.
CallMin(f, a, b, k) == IF f = "RoundMin" THEN RoundMin(a, b, k) ELSE NormalMin(a, b, k)
CallMax(f, a, b, k) == IF f = "RoundMax" THEN RoundMax(a, b, k) ELSE NormalMax(a, b, k)

\* ------------------------------------------------------------------------
\* SDF2 / SDF3 interface values.

\* The nil interface value: what a constructor returns when it fails.
Nil == [kind |-> "nil"]
\* A run-time panic: a method called on the nil interface value.
Panic == [kind |-> "panic"]

IsNode(s) == s.kind \notin {"nil", "panic"}

RECURSIVE Evaluate2(_, _)
RECURSIVE Evaluate3(_, _)

\* s.BoundingBox() of any node.
BoundingBox(s) == s.bb

\* sdf_box2d
sdf_box2d(p0, s) ==
    LET p == V2Abs(p0)
        d == V2Sub(p, s)
        k == s.Y - s.X
    IN IF d.X > 0 /\ d.Y > 0 THEN V2Length(d)
       ELSE IF p.Y - p.X > k THEN d.Y
       ELSE d.X

\* ------------------------------------------------------------------------
\* 2D circle.

Circle2D(radius) ==
    LET d == V2(radius, radius)
    IN [kind |-> "CircleSDF2", radius |-> radius, bb |-> Box2(V2Negate(d), d)]

CircleSDF2_Evaluate(s, p) == V2Length(p) - s.radius

\* ------------------------------------------------------------------------
\* 2D box.

NewBoxSDF2(size0, round) ==
    LET size == V2MulScalar(size0, 1)
    IN [kind |-> "BoxSDF2", size |-> V2SubScalar(size, round), round |-> round,
        bb |-> Box2(V2Negate(size), size)]

BoxSDF2_Evaluate(s, p) == sdf_box2d(p, s.size) - s.round

\* ------------------------------------------------------------------------
\* Offset.

NewOffsetSDF2(sdf, offset) ==
    IF ~IsNode(sdf) THEN Panic
    ELSE LET bb == BoundingBox(sdf)
         IN [kind |-> "OffsetSDF2", sdf |-> sdf, offset |-> offset,
             bb |-> NewBox2(Box2Center(bb),
                            V2AddScalar(Box2Size(bb), Mul(F(2), offset)))]

OffsetSDF2_Evaluate(s, p) == Evaluate2(s.sdf, p) - s.offset

\* ------------------------------------------------------------------------
\* 2D polygon.

\* The per-segment data of the constructor's loop: segment i runs from
\* vertex[i] to vertex[i+1] (sequences are indexed from 1).
PolySegVector(vertex, i) == V2Normalize(V2Sub(vertex[i + 1], vertex[i]))
PolySegLength(vertex, i) == V2Length(V2Sub(vertex[i + 1], vertex[i]))

NewPolySDF2(vertex0) ==
    LET n == Len(vertex0)
    IN IF n < 3 THEN Nil
       ELSE LET vertex == IF ~V2Equals(vertex0[1], vertex0[n], 0)
                          THEN Append(vertex0, vertex0[1])
                          ELSE vertex0
                nsegs == Len(vertex) - 1
                firsts == SubSeq(vertex, 1, nsegs)
            IN [kind |-> "PolySDF2",
                vertex |-> vertex,
                vector |-> [i \in 1..nsegs |-> PolySegVector(vertex, i)],
                length |-> [i \in 1..nsegs |-> PolySegLength(vertex, i)],
                bb |-> Box2(V2SetMin(firsts), V2SetMax(firsts))]

\* One pass of the loop over the line segments: i is the segment, dd the
\* squared distance so far, wn the winding number so far.
RECURSIVE PolyLoop(_, _, _, _, _)

\* A variant that takes the normal distance to the line past the segment's end.
PolyLoop_NoEndClamp(s, p, i, dd, wn) ==
    IF i > Len(s.vertex) - 1 THEN <<dd, wn>>
    ELSE LET a == s.vertex[i]
             b == s.vertex[i + 1]
             pa == V2Sub(p, a)
             t == V2Dot(pa, s.vector[i])
             dn == V2Dot(pa, V2(s.vector[i].Y, -s.vector[i].X))
             dd1 == IF t < 0 THEN Min(dd, V2Length2(pa))
                    ELSE Min(dd, Mul(dn, dn))
             wn1 == IF a.Y <= p.Y
                    THEN (IF b.Y > p.Y /\ dn < 0 THEN wn + 1 ELSE wn)
                    ELSE (IF b.Y <= p.Y /\ dn > 0 THEN wn - 1 ELSE wn)
         IN PolyLoop(s, p, i + 1, dd1, wn1)

PolyLoop(s, p, i, dd, wn) ==
    IF i > Len(s.vertex) - 1 THEN <<dd, wn>>
    ELSE LET a == s.vertex[i]
             b == s.vertex[i + 1]
             pa == V2Sub(p, a)
             pb == V2Sub(p, b)
             t == V2Dot(pa, s.vector[i])
             dn == V2Dot(pa, V2(s.vector[i].Y, -s.vector[i].X))
             dd1 == IF t < 0 THEN Min(dd, V2Length2(pa))
                    ELSE IF t > s.length[i] THEN Min(dd, V2Length2(pb))
                    ELSE Min(dd, Mul(dn, dn))
             wn1 == IF a.Y <= p.Y
                    THEN (IF b.Y > p.Y /\ dn < 0 THEN wn + 1 ELSE wn)
                    ELSE (IF b.Y <= p.Y /\ dn > 0 THEN wn - 1 ELSE wn)
         IN PolyLoop(s, p, i + 1, dd1, wn1)

PolySDF2_Evaluate(s, p) ==
    LET r == PolyLoop(s, p, 1, MaxFloat64, 0)
        d == Sqrt(r[1])
    IN IF r[2] # 0 THEN -d ELSE d

\* ------------------------------------------------------------------------
\* 2D transform.

NewTransformSDF2(sdf, matrix) ==
    IF ~IsNode(sdf) THEN Panic
    ELSE [kind |-> "TransformSDF2", sdf |-> sdf, matrix |-> matrix,
          inverse |-> M33Inverse(matrix),
          bb |-> M33MulBox(matrix, BoundingBox(sdf))]

\* A variant that sends the query point forward through the matrix.
TransformSDF2_Evaluate_Forward(s, p) ==
    LET q == M33MulPosition(s.matrix, p)
    IN Evaluate2(s.sdf, q)

TransformSDF2_Evaluate(s, p) ==
    LET q == M33MulPosition(s.inverse, p)
    IN Evaluate2(s.sdf, q)

\* ------------------------------------------------------------------------
\* 2D array.

\* A variant that checks only the first count.
NewArraySDF2_FirstCountOnly(sdf, num, step) ==
    IF num[1] <= 0 THEN Nil
    ELSE IF ~IsNode(sdf) THEN Panic
    ELSE LET bb0 == BoundingBox(sdf)
             bb1 == Box2Translate(bb0, V2Mul(step, V2iToV2(V2iSubScalar(num, 1))))
         IN [kind |-> "ArraySDF2", sdf |-> sdf, num |-> num, step |-> step,
             min |-> "NormalMin", k |-> 0, bb |-> Box2Extend(bb0, bb1)]

NewArraySDF2(sdf, num, step) ==
    IF num[1] <= 0 \/ num[2] <= 0 THEN Nil
    ELSE IF ~IsNode(sdf) THEN Panic
    ELSE LET bb0 == BoundingBox(sdf)
             bb1 == Box2Translate(bb0, V2Mul(step, V2iToV2(V2iSubScalar(num, 1))))
         IN [kind |-> "ArraySDF2", sdf |-> sdf, num |-> num, step |-> step,
             min |-> "NormalMin", k |-> 0, bb |-> Box2Extend(bb0, bb1)]

\* The two nested loops of Evaluate, from cell (j, k) on, with d so far.
RECURSIVE ArraySDF2_Loop(_, _, _, _, _)

\* A variant whose inner loop runs to the first count instead of the second.
ArraySDF2_Loop_WrongAxis(s, p, j, k, d) ==
    IF j >= s.num[1] THEN d
    ELSE IF k >= s.num[1] THEN ArraySDF2_Loop(s, p, j + 1, 0, d)
    ELSE LET x == V2Sub(p, V2(Mul(F(j), s.step.X), Mul(F(k), s.step.Y)))
         IN ArraySDF2_Loop(s, p, j, k + 1,
                           CallMin(s.min, d, Evaluate2(s.sdf, x), s.k))

ArraySDF2_Loop(s, p, j, k, d) ==
    IF j >= s.num[1] THEN d
    ELSE IF k >= s.num[2] THEN ArraySDF2_Loop(s, p, j + 1, 0, d)
    ELSE LET x == V2Sub(p, V2(Mul(F(j), s.step.X), Mul(F(k), s.step.Y)))
         IN ArraySDF2_Loop(s, p, j, k + 1,
                           CallMin(s.min, d, Evaluate2(s.sdf, x), s.k))

ArraySDF2_Evaluate(s, p) == ArraySDF2_Loop(s, p, 0, 0, MaxFloat64)

\* ------------------------------------------------------------------------
\* 2D rotate.

\* The constructor's loop over the copies: the running box of the vertices.
RECURSIVE RotateSDF2_Box(_, _, _, _, _)
RotateSDF2_Box(v, step, i, bb_min, bb_max) ==
    IF i = 0 THEN Box2(bb_min, bb_max)
    ELSE RotateSDF2_Box(M33MulVertices(v, step), step, i - 1,
                        V2Min(bb_min, V2SetMin(v)), V2Max(bb_max, V2SetMax(v)))

NewRotateSDF2(sdf, num, step) ==
    IF num <= 0 THEN Nil
    ELSE IF ~IsNode(sdf) THEN Panic
    ELSE LET v == Box2Vertices(BoundingBox(sdf))
         IN [kind |-> "RotateSDF2", sdf |-> sdf, num |-> num,
             step |-> M33Inverse(step), min |-> "NormalMin", k |-> 0,
             bb |-> RotateSDF2_Box(v, step, num, v[1], v[1])]

\* The loop of Evaluate, from copy i on, with rot and d so far.
RECURSIVE RotateSDF2_Loop(_, _, _, _, _)
RotateSDF2_Loop(s, p, i, rot, d) ==
    IF i >= s.num THEN d
    ELSE LET x == M33MulPosition(rot, p)
         IN RotateSDF2_Loop(s, p, i + 1, M33Mul(rot, s.step),
                            CallMin(s.min, d, Evaluate2(s.sdf, x), s.k))

RotateSDF2_Evaluate(s, p) == RotateSDF2_Loop(s, p, 0, Identity2d, MaxFloat64)

\* ------------------------------------------------------------------------
\* 2D rotate-copy.

NewRotateCopySDF2(sdf, num) ==
    IF num <= 0 THEN Nil
    ELSE IF ~IsNode(sdf) THEN Panic
    ELSE LET r_max == V2Length(BoundingBox(sdf).Max)
         IN [kind |-> "RotateCopySDF2", sdf |-> sdf, theta |-> TAU \div num,
             bb |-> Box2(V2(-r_max, -r_max), V2(r_max, r_max))]

\* A variant that evaluates the child at the query point itself.
RotateCopySDF2_Evaluate_NoSector(s, p) ==
    LET pnew == PolarToXY(V2Length(p), Atan2(p.Y, p.X))
    IN Evaluate2(s.sdf, pnew)

RotateCopySDF2_Evaluate(s, p) ==
    LET pnew == PolarToXY(V2Length(p), SawTooth(Atan2(p.Y, p.X), s.theta))
    IN Evaluate2(s.sdf, pnew)

\* ------------------------------------------------------------------------
\* 2D union and difference.

NewUnionSDF2(s0, s1) ==
    IF s0 = Nil THEN s1
    ELSE IF s1 = Nil THEN s0
    ELSE [kind |-> "UnionSDF2", s0 |-> s0, s1 |-> s1, min |-> "NormalMin",
          k |-> 0, bb |-> Box2Extend(BoundingBox(s0), BoundingBox(s1))]

\* A variant that blends with the maximum.
UnionSDF2_Evaluate_Max(s, p) ==
    LET a == Evaluate2(s.s0, p)
        b == Evaluate2(s.s1, p)
    IN CallMax(s.min, a, b, s.k)

UnionSDF2_Evaluate(s, p) ==
    LET a == Evaluate2(s.s0, p)
        b == Evaluate2(s.s1, p)
    IN CallMin(s.min, a, b, s.k)

NewDifferenceSDF2(s0, s1) ==
    IF s1 = Nil THEN s0
    ELSE IF s0 = Nil THEN Nil
    ELSE [kind |-> "DifferenceSDF2", s0 |-> s0, s1 |-> s1, max |-> "NormalMax",
          k |-> 0, bb |-> BoundingBox(s0)]

\* A variant that does not negate the subtrahend's distance.
DifferenceSDF2_Evaluate_NoNegate(s, p) ==
    CallMax(s.max, Evaluate2(s.s0, p), Evaluate2(s.s1, p), s.k)

DifferenceSDF2_Evaluate(s, p) ==
    CallMax(s.max, Evaluate2(s.s0, p), -Evaluate2(s.s1, p), s.k)

\* ------------------------------------------------------------------------
\* s.Evaluate(p) on an SDF2 interface value: the method of the node's type.

Evaluate2(s, p) ==
    CASE s.kind = "CircleSDF2" -> CircleSDF2_Evaluate(s, p)
      [] s.kind = "BoxSDF2" -> BoxSDF2_Evaluate(s, p)
      [] s.kind = "OffsetSDF2" -> OffsetSDF2_Evaluate(s, p)
      [] s.kind = "PolySDF2" -> PolySDF2_Evaluate(s, p)
      [] s.kind = "TransformSDF2" -> TransformSDF2_Evaluate(s, p)
      [] s.kind = "ArraySDF2" -> ArraySDF2_Evaluate(s, p)
      [] s.kind = "RotateSDF2" -> RotateSDF2_Evaluate(s, p)
      [] s.kind = "RotateCopySDF2" -> RotateCopySDF2_Evaluate(s, p)
      [] s.kind = "UnionSDF2" -> UnionSDF2_Evaluate(s, p)
      [] s.kind = "DifferenceSDF2" -> DifferenceSDF2_Evaluate(s, p)

\* ------------------------------------------------------------------------
\* V3, Box3 and M44 (a 3D affine transform: m[i][j], rows 0..2, columns 0..3,
\* the last row being 0 0 0 1).

V3(x, y, z) == [X |-> x, Y |-> y, Z |-> z]
V3Add(a, b) == V3(a.X + b.X, a.Y + b.Y, a.Z + b.Z)
V3Sub(a, b) == V3(a.X - b.X, a.Y - b.Y, a.Z - b.Z)
V3Mul(a, b) == V3(Mul(a.X, b.X), Mul(a.Y, b.Y), Mul(a.Z, b.Z))
V3Negate(a) == V3(-a.X, -a.Y, -a.Z)
V3Min(a, b) == V3(Min(a.X, b.X), Min(a.Y, b.Y), Min(a.Z, b.Z))
V3Max(a, b) == V3(Max(a.X, b.X), Max(a.Y, b.Y), Max(a.Z, b.Z))
V3Length(a) == Sqrt(Mul(a.X, a.X) + Mul(a.Y, a.Y) + Mul(a.Z, a.Z))
RECURSIVE V3SetMin(_)
V3SetMin(vs) ==
    IF Len(vs) = 1 THEN vs[1] ELSE V3Min(vs[1], V3SetMin(Tail(vs)))
RECURSIVE V3SetMax(_)
V3SetMax(vs) ==
    IF Len(vs) = 1 THEN vs[1] ELSE V3Max(vs[1], V3SetMax(Tail(vs)))
V3iSubScalar(n, k) == <<n[1] - k, n[2] - k, n[3] - k>>
V3iToV3(n) == V3(F(n[1]), F(n[2]), F(n[3]))

Box3(min, max) == [Min |-> min, Max |-> max]
Box3Extend(a, b) == Box3(V3Min(a.Min, b.Min), V3Max(a.Max, b.Max))
Box3Translate(a, v) == Box3(V3Add(a.Min, v), V3Add(a.Max, v))
Box3Vertices(a) ==
    << a.Min,
       V3(a.Min.X, a.Min.Y, a.Max.Z), V3(a.Min.X, a.Max.Y, a.Min.Z),
       V3(a.Min.X, a.Max.Y, a.Max.Z), V3(a.Max.X, a.Min.Y, a.Min.Z),
       V3(a.Max.X, a.Min.Y, a.Max.Z), V3(a.Max.X, a.Max.Y, a.Min.Z),
       a.Max >>

Identity3d == [i \in 0..2 |-> [j \in 0..3 |-> IF i = j THEN F(1) ELSE 0]]
Translate3d(v) ==
    [i \in 0..2 |-> [j \in 0..3 |->
        IF i = j THEN F(1)
        ELSE IF j = 3 THEN (CASE i = 0 -> v.X [] i = 1 -> v.Y [] i = 2 -> v.Z)
        ELSE 0]]
M44Of(rows) == [i \in 0..2 |-> [j \in 0..3 |-> rows[i + 1][j + 1]]]
\* RotateZ by q quarter turns.
RotateZ(q) ==
    LET r == Rotate2d(q)
    IN M44Of(<< <<r.x00, r.x01, 0, 0>>, <<r.x10, r.x11, 0, 0>>,
                <<0, 0, F(1), 0>> >>)
M44MulPosition(a, p) ==
    V3(Mul(a[0][0], p.X) + Mul(a[0][1], p.Y) + Mul(a[0][2], p.Z) + a[0][3],
       Mul(a[1][0], p.X) + Mul(a[1][1], p.Y) + Mul(a[1][2], p.Z) + a[1][3],
       Mul(a[2][0], p.X) + Mul(a[2][1], p.Y) + Mul(a[2][2], p.Z) + a[2][3])
M44Mul(a, b) ==
    [i \in 0..2 |-> [j \in 0..3 |->
        Mul(a[i][0], b[0][j]) + Mul(a[i][1], b[1][j]) + Mul(a[i][2], b[2][j])
        + (IF j = 3 THEN a[i][3] ELSE 0)]]
M44Determinant(a) ==
    Mul(a[0][0], Mul(a[1][1], a[2][2]) - Mul(a[1][2], a[2][1]))
    - Mul(a[0][1], Mul(a[1][0], a[2][2]) - Mul(a[1][2], a[2][0]))
    + Mul(a[0][2], Mul(a[1][0], a[2][1]) - Mul(a[1][1], a[2][0]))
\* Inverse: the adjugate over the determinant, and the translation carried
\* back through it.
M44Inverse(a) ==
    LET d == M44Determinant(a)
        r == [i \in 0..2 |-> [j \in 0..2 |->
                Div(Mul(a[(j + 1) % 3][(i + 1) % 3], a[(j + 2) % 3][(i + 2) % 3])
                    - Mul(a[(j + 1) % 3][(i + 2) % 3], a[(j + 2) % 3][(i + 1) % 3]),
                    d)]]
    IN [i \in 0..2 |-> [j \in 0..3 |->
          IF j < 3 THEN r[i][j]
          ELSE -(Mul(r[i][0], a[0][3]) + Mul(r[i][1], a[1][3])
                 + Mul(r[i][2], a[2][3]))]]
M44MulVertices(vs, a) == [i \in DOMAIN vs |-> M44MulPosition(a, vs[i])]
M44MulBox(a, b) ==
    LET vs == M44MulVertices(Box3Vertices(b), a)
    IN Box3(V3SetMin(vs), V3SetMax(vs))

\* math.Sin / math.Cos of q quarter turns.
Sin(q) == CASE q % 4 = 0 -> 0 [] q % 4 = 1 -> F(1) [] q % 4 = 2 -> 0 [] q % 4 = 3 -> F(-1)
Cos(q) == Sin(q + 1)

\* ------------------------------------------------------------------------
\* Solid of revolution.

NewSorThetaSDF3(sdf, theta0) ==
    IF ~IsNode(sdf) THEN Panic
    ELSE LET theta == Abs(theta0) % TAU
             sin == Sin(theta)
             cos == Cos(theta)
             vset == IF theta = 0 THEN << V2(F(1), F(1)), V2(F(-1), F(-1)) >>
                     ELSE << V2(0, 0), V2(F(1), 0), V2(cos, sin) >>
                          \o (IF 2 * theta > PI THEN << V2(0, F(1)) >> ELSE << >>)
                          \o (IF theta > PI THEN << V2(F(-1), 0) >> ELSE << >>)
                          \o (IF 2 * theta > 3 * PI THEN << V2(0, F(-1)) >> ELSE << >>)
             bb == BoundingBox(sdf)
             l == Max(Abs(bb.Min.X), Abs(bb.Max.X))
             vmin == V2MulScalar(V2SetMin(vset), l)
             vmax == V2MulScalar(V2SetMax(vset), l)
         IN [kind |-> "SorSDF3", sdf |-> sdf, theta |-> theta,
             norm |-> V2(-sin, cos),
             bb |-> Box3(V3(vmin.X, vmin.Y, bb.Min.Y), V3(vmax.X, vmax.Y, bb.Max.Y))]

NewSorSDF3(sdf) == NewSorThetaSDF3(sdf, 0)

\* A variant without the wedge: the full revolution whatever theta is.
SorSDF3_Evaluate_NoWedge(s, p) ==
    LET x == Sqrt(Mul(p.X, p.X) + Mul(p.Y, p.Y))
    IN Evaluate2(s.sdf, V2(x, p.Z))

SorSDF3_Evaluate(s, p) ==
    LET x == Sqrt(Mul(p.X, p.X) + Mul(p.Y, p.Y))
        a == Evaluate2(s.sdf, V2(x, p.Z))
        d == V2Dot(s.norm, V2(p.X, p.Y))
        b == IF s.theta # 0
             THEN (IF s.theta < PI THEN Max(-p.Y, d) ELSE Min(-p.Y, d))
             ELSE a
    IN Max(a, b)

\* ------------------------------------------------------------------------
\* Extrusion.

NewExtrudeSDF3(sdf, height) ==
    IF ~IsNode(sdf) THEN Panic
    ELSE LET bb == BoundingBox(sdf)
         IN [kind |-> "ExtrudeSDF3", sdf |-> sdf, height |-> height,
             bb |-> Box3(V3(bb.Min.X, bb.Min.Y, 0), V3(bb.Max.X, bb.Max.Y, height))]

ExtrudeSDF3_Evaluate(s, p) ==
    LET a == Evaluate2(s.sdf, V2(p.X, p.Y))
        b == Max(-p.Z, p.Z - s.height)
    IN Max(a, b)

\* ------------------------------------------------------------------------
\* Sphere.

NewSphereSDF3(radius) ==
    LET d == V3(radius, radius, radius)
    IN [kind |-> "SphereSDF3", radius |-> radius, bb |-> Box3(V3Negate(d), d)]

SphereSDF3_Evaluate(s, p) == V3Length(p) - s.radius

\* ------------------------------------------------------------------------
\* Cylinder with rounded edges, and the capsule built from it.

NewCylinderSDF3(height, radius, round) ==
    LET d == V3(radius, radius, Div(height, F(2)))
    IN [kind |-> "CylinderSDF3",
        height |-> Div(height, F(2)) - round,
        radius |-> radius - round,
        round |-> round,
        bb |-> Box3(V3Negate(d), d)]

\* The call passes (radius, height, radius) to a constructor whose
\* parameters are (height, radius, round).
NewCapsuleSDF3(radius, height) == NewCylinderSDF3(radius, height, radius)

CylinderSDF3_Evaluate(s, p) ==
    LET d == sdf_box2d(V2(V2Length(V2(p.X, p.Y)), p.Z), V2(s.radius, s.height))
    IN d - s.round

\* ------------------------------------------------------------------------
\* 3D transform.

NewTransformSDF3(sdf, matrix) ==
    IF ~IsNode(sdf) THEN Panic
    ELSE [kind |-> "TransformSDF3", sdf |-> sdf, matrix |-> matrix,
          inverse |-> M44Inverse(matrix),
          bb |-> M44MulBox(matrix, BoundingBox(sdf))]

TransformSDF3_Evaluate(s, p) == Evaluate3(s.sdf, M44MulPosition(s.inverse, p))

\* ------------------------------------------------------------------------
\* 3D union and difference.  Neither constructor looks at its arguments
\* before it asks s0 (and, for the union, s1) for its bounding box.

NewUnionSDF3(s0, s1) ==
    IF ~IsNode(s0) \/ ~IsNode(s1) THEN Panic
    ELSE [kind |-> "UnionSDF3", s0 |-> s0, s1 |-> s1, min |-> "NormalMin",
          k |-> 0, bb |-> Box3Extend(BoundingBox(s0), BoundingBox(s1))]

UnionSDF3_Evaluate(s, p) ==
    CallMin(s.min, Evaluate3(s.s0, p), Evaluate3(s.s1, p), s.k)

NewDifferenceSDF3(s0, s1) ==
    IF ~IsNode(s0) THEN Panic
    ELSE [kind |-> "DifferenceSDF3", s0 |-> s0, s1 |-> s1, max |-> "NormalMax",
          k |-> 0, bb |-> BoundingBox(s0)]

DifferenceSDF3_Evaluate(s, p) ==
    CallMax(s.max, Evaluate3(s.s0, p), -Evaluate3(s.s1, p), s.k)

\* ------------------------------------------------------------------------
\* 3D array.

NewArraySDF3(sdf, num, step) ==
    IF num[1] <= 0 \/ num[2] <= 0 \/ num[3] <= 0 THEN Nil
    ELSE IF ~IsNode(sdf) THEN Panic
    ELSE LET bb0 == BoundingBox(sdf)
             bb1 == Box3Translate(bb0, V3Mul(step, V3iToV3(V3iSubScalar(num, 1))))
         IN [kind |-> "ArraySDF3", sdf |-> sdf, num |-> num, step |-> step,
             min |-> "NormalMin", k |-> 0, bb |-> Box3Extend(bb0, bb1)]

\* The three nested loops of Evaluate, from cell (j, k, l) on, with d so far.
RECURSIVE ArraySDF3_Loop(_, _, _, _, _, _)
ArraySDF3_Loop(s, p, j, k, l, d) ==
    IF j >= s.num[1] THEN d
    ELSE IF k >= s.num[2] THEN ArraySDF3_Loop(s, p, j + 1, 0, 0, d)
    ELSE IF l >= s.num[3] THEN ArraySDF3_Loop(s, p, j, k + 1, 0, d)
    ELSE LET x == V3Sub(p, V3(Mul(F(j), s.step.X), Mul(F(k), s.step.Y),
                              Mul(F(l), s.step.Z)))
         IN ArraySDF3_Loop(s, p, j, k, l + 1,
                           CallMin(s.min, d, Evaluate3(s.sdf, x), s.k))

ArraySDF3_Evaluate(s, p) == ArraySDF3_Loop(s, p, 0, 0, 0, MaxFloat64)

\* ------------------------------------------------------------------------
\* 3D rotate.

RECURSIVE RotateSDF3_Box(_, _, _, _, _)
RotateSDF3_Box(v, step, i, bb_min, bb_max) ==
    IF i = 0 THEN Box3(bb_min, bb_max)
    ELSE RotateSDF3_Box(M44MulVertices(v, step), step, i - 1,
                        V3Min(bb_min, V3SetMin(v)), V3Max(bb_max, V3SetMax(v)))

NewRotateSDF3(sdf, num, step) ==
    IF num <= 0 THEN Nil
    ELSE IF ~IsNode(sdf) THEN Panic
    ELSE LET v == Box3Vertices(BoundingBox(sdf))
         IN [kind |-> "RotateSDF3", sdf |-> sdf, num |-> num,
             step |-> M44Inverse(step), min |-> "NormalMin", k |-> 0,
             bb |-> RotateSDF3_Box(v, step, num, v[1], v[1])]

RECURSIVE RotateSDF3_Loop(_, _, _, _, _)
RotateSDF3_Loop(s, p, i, rot, d) ==
    IF i >= s.num THEN d
    ELSE LET x == M44MulPosition(rot, p)
         IN RotateSDF3_Loop(s, p, i + 1, M44Mul(rot, s.step),
                            CallMin(s.min, d, Evaluate3(s.sdf, x), s.k))

RotateSDF3_Evaluate(s, p) == RotateSDF3_Loop(s, p, 0, Identity3d, MaxFloat64)

\* ------------------------------------------------------------------------
\* s.Evaluate(p) on an SDF3 interface value.

Evaluate3(s, p) ==
    CASE s.kind = "SorSDF3" -> SorSDF3_Evaluate(s, p)
      [] s.kind = "ExtrudeSDF3" -> ExtrudeSDF3_Evaluate(s, p)
      [] s.kind = "SphereSDF3" -> SphereSDF3_Evaluate(s, p)
      [] s.kind = "CylinderSDF3" -> CylinderSDF3_Evaluate(s, p)
      [] s.kind = "TransformSDF3" -> TransformSDF3_Evaluate(s, p)
      [] s.kind = "UnionSDF3" -> UnionSDF3_Evaluate(s, p)
      [] s.kind = "DifferenceSDF3" -> DifferenceSDF3_Evaluate(s, p)
      [] s.kind = "ArraySDF3" -> ArraySDF3_Evaluate(s, p)
      [] s.kind = "RotateSDF3" -> RotateSDF3_Evaluate(s, p)

\* ------------------------------------------------------------------------
\* The shape of a tree.

Kinds2 == {"CircleSDF2", "BoxSDF2", "OffsetSDF2", "PolySDF2", "TransformSDF2",
           "ArraySDF2", "RotateSDF2", "RotateCopySDF2", "UnionSDF2",
           "DifferenceSDF2"}
Kinds3 == {"SorSDF3", "ExtrudeSDF3", "SphereSDF3", "CylinderSDF3",
           "TransformSDF3", "UnionSDF3", "DifferenceSDF3", "ArraySDF3",
           "RotateSDF3"}
\* The node types with a SetMin method, and those with a SetMax method.
MinKinds == {"ArraySDF2", "RotateSDF2", "UnionSDF2", "UnionSDF3", "ArraySDF3",
             "RotateSDF3"}
MaxKinds == {"DifferenceSDF2", "DifferenceSDF3"}

\* A value a variable of type SDF2 (SDF3) can hold.
IsSDF2(s) == s.kind \in Kinds2 \cup {"nil"}
IsSDF3(s) == s.kind \in Kinds3 \cup {"nil"}

\* The children a node refers to.
Children(s) ==
    IF "sdf" \in DOMAIN s THEN <<s.sdf>>
    ELSE IF "s0" \in DOMAIN s THEN <<s.s0, s.s1>>
    ELSE << >>

RECURSIVE Depth(_)
Depth(s) ==
    LET c == Children(s)
    IN CASE Len(c) = 0 -> 0
         [] Len(c) = 1 -> 1 + Depth(c[1])
         [] Len(c) = 2 -> 1 + Max(Depth(c[1]), Depth(c[2]))

\* A tree that holds the nil interface value: its Evaluate calls a method on
\* nil.  (Every Evaluate evaluates every child.)
RECURSIVE HoldsNil(_)
HoldsNil(s) ==
    \/ s = Nil
    \/ \E i \in DOMAIN Children(s) : HoldsNil(Children(s)[i])

\* A variant of the setter that stores the function and not k.
SetMin_FunctionOnly(s, min, k) == [s EXCEPT !.min = min]

\* The setters.
SetMin(s, min, k) == [s EXCEPT !.min = min, !.k = k]
SetMax(s, max, k) == [s EXCEPT !.max = max, !.k = k]

\* s.Evaluate(p) through either interface.
Evaluate(s, p) == IF s.kind \in Kinds2 THEN Evaluate2(s, p) ELSE Evaluate3(s, p)

\* ------------------------------------------------------------------------
\* The inputs the client draws from.

Coords == {F(i) : i \in -GridMax..GridMax}
Points2 == {V2(x, y) : x \in Coords, y \in Coords}
Points3 == {V3(x, y, z) : x \in Coords, y \in Coords, z \in {F(-1), 0, F(1)}}
\* The points the client asks the distance at.
QueryPoints2 == {V2(0, 0), V2(F(-1), F(-1)), V2(F(2), 0), V2(F(1), F(2)),
                 V2(F(-2), F(1))}
QueryPoints3 == {V3(0, 0, 0), V3(F(1), 0, F(1)), V3(F(-1), F(-1), 0),
                 V3(0, F(2), 0), V3(F(-2), F(1), F(-1))}

Radii == {F(1), F(2)}
BoxSizes == {V2(F(2), F(4))}
Polygons ==
    { << V2(0, 0), V2(F(2), 0) >>,
      << V2(0, 0), V2(F(2), 0), V2(F(2), F(2)), V2(0, F(2)) >>,
      << V2(F(-2), F(-2)), V2(0, F(-2)), V2(0, 0), V2(F(-2), 0), V2(F(-2), F(-2)) >> }
Offsets == {F(-1), F(1)}
\* A translation, a quarter turn followed by a translation, and a shear.
Matrices2 == {Translate2d(V2(F(2), 0)),
              M33Mul(Translate2d(V2(0, F(-1))), Rotate2d(1)),
              M33(F(1), F(1), 0, 0, F(1), 0)}
Nums2 == {V2i(1, 1), V2i(2, 1), V2i(1, 2), V2i(0, 1), V2i(1, 0), V2i(-1, 2)}
Nums3 == {<<1, 1, 1>>, <<2, 1, 1>>, <<1, 2, 2>>, <<0, 1, 1>>, <<1, 1, 0>>,
          <<1, -1, 1>>}
Steps2 == {V2(F(2), F(2))}
RotateCounts == {0, 2}
CopyCounts == {-1, 0, 1, 2, 4}
Thetas == {0, 1, 2, 3}
Heights == {F(-1), F(2)}
Matrices3 == {Translate3d(V3(F(2), 0, 0)),
              M44Mul(Translate3d(V3(0, F(-1), F(1))), RotateZ(1))}
Steps3 == {V3(F(2), F(2), F(2))}
\* The second operand of a union or difference.
Operands2 == {Nil, Circle2D(F(1)), NewBoxSDF2(V2(F(2), F(4)), 0)}
Operands3 == {Nil, NewSphereSDF3(F(1))}
\* The blends a setter is called with.
MinBlends == {<<"RoundMin", F(1)>>, <<"NormalMin", 0>>}
MaxBlends == {<<"RoundMax", F(1)>>, <<"NormalMax", 0>>}

\* ------------------------------------------------------------------------
\* The state: the shape the client holds, its last call, the result of its
\* last Evaluate, and whether the program has panicked.

VARIABLES node, call, res, panicked, built, blend, frames

vars == <<node, call, res, panicked, built, blend, frames>>

\* built is history: the shape as its constructor returned it.

\* blend is history: the function and k of the last setter call on the shape
\* the client holds, and "default" when there has been none since it was built.
NoBlend == [f |-> "default", k |-> 0]

NoCall == [op |-> "none"]
NoRes == [kind |-> "none"]

\* frames holds, for each concurrent caller of Evaluate, the locals of its call
\* on the shared shape: the point p, the loop indices, rot and the distance d
\* so far.  mixed is history: a step of another call ran during this one.
Callers == 1..NumCallers
Idle == [pc |-> "idle"]

Init ==
    /\ node = Nil
    /\ call = NoCall
    /\ res = NoRes
    /\ panicked = FALSE
    /\ built = Nil
    /\ blend = NoBlend
    /\ frames = [c \in Callers |-> Idle]

\* A constructor returns ret to the client, or panics.  A union or a
\* difference that returns its own operand returns the shape the client
\* holds, as configured, and not a new one.
Return(op, args, ret) ==
    /\ ~panicked
    /\ call' = [op |-> op, args |-> args, ret |-> ret]
    /\ res' = NoRes
    /\ UNCHANGED frames
    /\ IF ret = Panic
       THEN panicked' = TRUE /\ UNCHANGED <<node, built, blend>>
       ELSE IF ret = node
       THEN panicked' = FALSE /\ UNCHANGED <<node, built, blend>>
       ELSE panicked' = FALSE /\ node' = ret /\ built' = ret /\ blend' = NoBlend

\* The client wraps the shape it holds only up to the depth bound.
CanWrap(s) == s = Nil \/ Depth(s) < MaxDepth

CallCircle2D ==
    \E radius \in Radii :
        Return("Circle2D", [radius |-> radius], Circle2D(radius))

CallNewBoxSDF2 ==
    \E size \in BoxSizes :
        Return("NewBoxSDF2", [size |-> size], NewBoxSDF2(size, 0))

CallNewPolySDF2 ==
    \E vertex \in Polygons :
        Return("NewPolySDF2", [vertex |-> vertex], NewPolySDF2(vertex))

CallNewOffsetSDF2 ==
    /\ IsSDF2(node) /\ CanWrap(node)
    /\ \E offset \in Offsets :
        Return("NewOffsetSDF2", [sdf |-> node, offset |-> offset],
               NewOffsetSDF2(node, offset))

CallNewTransformSDF2 ==
    /\ IsSDF2(node) /\ CanWrap(node)
    /\ \E matrix \in Matrices2 :
        Return("NewTransformSDF2", [sdf |-> node, matrix |-> matrix],
               NewTransformSDF2(node, matrix))

CallNewArraySDF2 ==
    /\ IsSDF2(node) /\ CanWrap(node)
    /\ \E num \in Nums2, step \in Steps2 :
        Return("NewArraySDF2", [sdf |-> node, num |-> num, step |-> step],
               NewArraySDF2(node, num, step))

CallNewRotateSDF2 ==
    /\ IsSDF2(node) /\ CanWrap(node)
    /\ \E num \in RotateCounts :
        Return("NewRotateSDF2", [sdf |-> node, num |-> num],
               NewRotateSDF2(node, num, Rotate2d(1)))

CallNewRotateCopySDF2 ==
    /\ IsSDF2(node) /\ CanWrap(node)
    /\ \E num \in CopyCounts :
        Return("NewRotateCopySDF2", [sdf |-> node, num |-> num],
               NewRotateCopySDF2(node, num))

CallNewUnionSDF2 ==
    /\ IsSDF2(node) /\ CanWrap(node)
    /\ \E other \in Operands2, swap \in BOOLEAN :
        LET s0 == IF swap THEN other ELSE node
            s1 == IF swap THEN node ELSE other
        IN Return("NewUnionSDF2", [s0 |-> s0, s1 |-> s1], NewUnionSDF2(s0, s1))

CallNewDifferenceSDF2 ==
    /\ IsSDF2(node) /\ CanWrap(node)
    /\ \E other \in Operands2, swap \in BOOLEAN :
        LET s0 == IF swap THEN other ELSE node
            s1 == IF swap THEN node ELSE other
        IN Return("NewDifferenceSDF2", [s0 |-> s0, s1 |-> s1],
                  NewDifferenceSDF2(s0, s1))

CallNewSphereSDF3 ==
    \E radius \in Radii :
        Return("NewSphereSDF3", [radius |-> radius], NewSphereSDF3(radius))

CallNewSorThetaSDF3 ==
    /\ IsSDF2(node) /\ CanWrap(node)
    /\ \E theta \in Thetas :
        Return("NewSorThetaSDF3", [sdf |-> node, theta |-> theta],
               NewSorThetaSDF3(node, theta))

CallNewExtrudeSDF3 ==
    /\ IsSDF2(node) /\ CanWrap(node)
    /\ \E height \in Heights :
        Return("NewExtrudeSDF3", [sdf |-> node, height |-> height],
               NewExtrudeSDF3(node, height))

CallNewTransformSDF3 ==
    /\ IsSDF3(node) /\ CanWrap(node)
    /\ \E matrix \in Matrices3 :
        Return("NewTransformSDF3", [sdf |-> node, matrix |-> matrix],
               NewTransformSDF3(node, matrix))

CallNewUnionSDF3 ==
    /\ IsSDF3(node) /\ CanWrap(node)
    /\ \E other \in Operands3, swap \in BOOLEAN :
        LET s0 == IF swap THEN other ELSE node
            s1 == IF swap THEN node ELSE other
        IN Return("NewUnionSDF3", [s0 |-> s0, s1 |-> s1], NewUnionSDF3(s0, s1))

CallNewDifferenceSDF3 ==
    /\ IsSDF3(node) /\ CanWrap(node)
    /\ \E other \in Operands3, swap \in BOOLEAN :
        LET s0 == IF swap THEN other ELSE node
            s1 == IF swap THEN node ELSE other
        IN Return("NewDifferenceSDF3", [s0 |-> s0, s1 |-> s1],
                  NewDifferenceSDF3(s0, s1))

CallNewArraySDF3 ==
    /\ IsSDF3(node) /\ CanWrap(node)
    /\ \E num \in Nums3, step \in Steps3 :
        Return("NewArraySDF3", [sdf |-> node, num |-> num, step |-> step],
               NewArraySDF3(node, num, step))

CallNewRotateSDF3 ==
    /\ IsSDF3(node) /\ CanWrap(node)
    /\ \E num \in RotateCounts :
        Return("NewRotateSDF3", [sdf |-> node, num |-> num],
               NewRotateSDF3(node, num, RotateZ(1)))

\* SetMin / SetMax on the shape the client holds.
CallSetMin ==
    /\ ~panicked
    /\ node.kind \in MinKinds
    /\ \E b \in MinBlends :
        /\ node' = SetMin(node, b[1], b[2])
        /\ call' = [op |-> "SetMin", args |-> [min |-> b[1], k |-> b[2]]]
        /\ blend' = [f |-> b[1], k |-> b[2]]
    /\ res' = NoRes
    /\ UNCHANGED <<panicked, built, frames>>

CallSetMax ==
    /\ ~panicked
    /\ node.kind \in MaxKinds
    /\ \E b \in MaxBlends :
        /\ node' = SetMax(node, b[1], b[2])
        /\ call' = [op |-> "SetMax", args |-> [max |-> b[1], k |-> b[2]]]
        /\ blend' = [f |-> b[1], k |-> b[2]]
    /\ res' = NoRes
    /\ UNCHANGED <<panicked, built, frames>>

\* Evaluate on the shape the client holds; it reaches every node of the tree,
\* and a method call on a nil interface value panics.
CallEvaluate ==
    /\ ~panicked
    /\ \E p \in (IF node.kind \in Kinds3 THEN QueryPoints3 ELSE QueryPoints2) :
        /\ call' = [op |-> "Evaluate", args |-> [p |-> p]]
        /\ IF HoldsNil(node)
           THEN panicked' = TRUE /\ res' = NoRes
           ELSE /\ panicked' = FALSE
                /\ res' = [kind |-> "value", p |-> p, d |-> Evaluate(node, p)]
    /\ UNCHANGED <<node, built, blend, frames>>

Next ==
    \/ CallCircle2D
    \/ CallNewBoxSDF2
    \/ CallNewPolySDF2
    \/ CallNewOffsetSDF2
    \/ CallNewTransformSDF2
    \/ CallNewArraySDF2
    \/ CallNewRotateSDF2
    \/ CallNewRotateCopySDF2
    \/ CallNewUnionSDF2
    \/ CallNewDifferenceSDF2
    \/ CallNewSphereSDF3
    \/ CallNewSorThetaSDF3
    \/ CallNewExtrudeSDF3
    \/ CallNewTransformSDF3
    \/ CallNewUnionSDF3
    \/ CallNewDifferenceSDF3
    \/ CallNewArraySDF3
    \/ CallNewRotateSDF3
    \/ CallSetMin
    \/ CallSetMax
    \/ CallEvaluate

Spec == Init /\ [][Next]_vars

\* ------------------------------------------------------------------------
\* Concurrent Evaluate calls on one shared shape.  A call on an array or a
\* rotate node takes one step per pass of its loop, so that the calls of the
\* other callers interleave with it; its locals are its own.

\* The shapes the client builds, configures and then shares.
SharedTrees ==
    {NewArraySDF2(Circle2D(F(1)), <<2, 2>>, V2(F(2), F(2))),
     SetMin(NewRotateSDF2(NewBoxSDF2(V2(F(2), F(4)), 0), 2, Rotate2d(1)),
            "RoundMin", F(1)),
     NewUnionSDF2(Circle2D(F(1)), NewBoxSDF2(V2(F(2), F(4)), 0)),
     NewArraySDF3(NewSphereSDF3(F(1)), <<1, 2, 2>>, V3(F(2), F(2), F(2))),
     SetMin(NewRotateSDF3(NewTransformSDF3(NewSphereSDF3(F(1)),
                                           Translate3d(V3(F(2), 0, 0))),
                          2, RotateZ(1)),
            "RoundMin", F(1))}

\* The points the concurrent callers evaluate.
ConcPoints2 == {V2(0, 0), V2(F(2), 0)}
ConcPoints3 == {V3(0, 0, 0), V3(0, F(2), 0)}

\* A variant of Evaluate that keeps the distance so far in the receiver's k.
Evaluate_Receiver_CacheD(s, fr) ==
    IF "k" \in DOMAIN s /\ fr.pc = "loop" THEN [s EXCEPT !.k = fr.d] ELSE s

\* The receiver after a step of Evaluate: no Evaluate method assigns to a
\* field of its receiver.
Evaluate_Receiver(s, fr) == s

\* One pass of the loops of Evaluate, on the locals fr.
ArraySDF2_Step(s, fr) ==
    IF fr.j >= s.num[1] THEN [fr EXCEPT !.pc = "return"]
    ELSE IF fr.k >= s.num[2] THEN [fr EXCEPT !.j = @ + 1, !.k = 0]
    ELSE LET x == V2Sub(fr.p, V2(Mul(F(fr.j), s.step.X), Mul(F(fr.k), s.step.Y)))
         IN [fr EXCEPT !.k = @ + 1,
                       !.d = CallMin(s.min, fr.d, Evaluate2(s.sdf, x), s.k)]

ArraySDF3_Step(s, fr) ==
    IF fr.j >= s.num[1] THEN [fr EXCEPT !.pc = "return"]
    ELSE IF fr.k >= s.num[2] THEN [fr EXCEPT !.j = @ + 1, !.k = 0, !.l = 0]
    ELSE IF fr.l >= s.num[3] THEN [fr EXCEPT !.k = @ + 1, !.l = 0]
    ELSE LET x == V3Sub(fr.p, V3(Mul(F(fr.j), s.step.X), Mul(F(fr.k), s.step.Y),
                                 Mul(F(fr.l), s.step.Z)))
         IN [fr EXCEPT !.l = @ + 1,
                       !.d = CallMin(s.min, fr.d, Evaluate3(s.sdf, x), s.k)]

RotateSDF2_Step(s, fr) ==
    IF fr.i >= s.num THEN [fr EXCEPT !.pc = "return"]
    ELSE LET x == M33MulPosition(fr.rot, fr.p)
         IN [fr EXCEPT !.i = @ + 1, !.rot = M33Mul(fr.rot, s.step),
                       !.d = CallMin(s.min, fr.d, Evaluate2(s.sdf, x), s.k)]

RotateSDF3_Step(s, fr) ==
    IF fr.i >= s.num THEN [fr EXCEPT !.pc = "return"]
    ELSE LET x == M44MulPosition(fr.rot, fr.p)
         IN [fr EXCEPT !.i = @ + 1, !.rot = M44Mul(fr.rot, s.step),
                       !.d = CallMin(s.min, fr.d, Evaluate3(s.sdf, x), s.k)]

\* A node without a loop evaluates in one expression.
Evaluate_Step(s, fr) ==
    CASE s.kind = "ArraySDF2" -> ArraySDF2_Step(s, fr)
      [] s.kind = "ArraySDF3" -> ArraySDF3_Step(s, fr)
      [] s.kind = "RotateSDF2" -> RotateSDF2_Step(s, fr)
      [] s.kind = "RotateSDF3" -> RotateSDF3_Step(s, fr)
      [] OTHER -> [fr EXCEPT !.pc = "return", !.d = Evaluate(s, fr.p)]

\* The locals on entry: d := math.MaxFloat64, rot := Identity, indices 0.
Evaluate_Entry(s, p) ==
    [pc |-> "loop", p |-> p, i |-> 0, j |-> 0, k |-> 0, l |-> 0,
     rot |-> IF s.kind \in Kinds3 THEN Identity3d ELSE Identity2d,
     d |-> MaxFloat64, mixed |-> FALSE]

InFlight(c) == frames[c].pc \in {"loop", "return"}

\* The client builds one shape and hands it to the callers.
ShareTree ==
    /\ node = Nil
    /\ \E s \in SharedTrees :
        /\ node' = s
        /\ built' = s
        /\ call' = [op |-> "Share", ret |-> s]
    /\ UNCHANGED <<res, panicked, blend, frames>>

EvaluateEnter(c) ==
    /\ IsNode(node)
    /\ frames[c].pc = "idle"
    /\ \E p \in (IF node.kind \in Kinds3 THEN ConcPoints3 ELSE ConcPoints2) :
        frames' = [frames EXCEPT ![c] = Evaluate_Entry(node, p)]
    /\ UNCHANGED <<node, call, res, panicked, built, blend>>

EvaluateStep(c) ==
    /\ frames[c].pc = "loop"
    /\ frames' = [d \in Callers |->
                    IF d = c THEN Evaluate_Step(node, frames[c])
                    ELSE IF InFlight(d) THEN [frames[d] EXCEPT !.mixed = TRUE]
                    ELSE frames[d]]
    /\ node' = Evaluate_Receiver(node, frames[c])
    /\ UNCHANGED <<call, res, panicked, built, blend>>

\* The call returns d to its caller.
EvaluateReturn(c) ==
    /\ frames[c].pc = "return"
    /\ res' = [kind |-> "value", p |-> frames[c].p, d |-> frames[c].d]
    /\ call' = [op |-> "Evaluate", args |-> [p |-> frames[c].p]]
    /\ frames' = [frames EXCEPT ![c] = Idle]
    /\ UNCHANGED <<node, panicked, built, blend>>

NextConc ==
    \/ ShareTree
    \/ \E c \in Callers : EvaluateEnter(c)
    \/ \E c \in Callers : EvaluateStep(c)
    \/ \E c \in Callers : EvaluateReturn(c)

SpecConc == Init /\ [][NextConc]_vars

\* ------------------------------------------------------------------------
\* Polygons by themselves: the client builds a polygon and evaluates it at
\* the points of the grid.

\* Simple polygons with axis-aligned edges: the square of side 2, open and
\* counter-clockwise; the same square closed and clockwise; an L, open and
\* counter-clockwise, and closed and clockwise; and a list of 2 vertices.
PolyShapes ==
    { << V2(0, 0), V2(F(2), 0), V2(F(2), F(2)), V2(0, F(2)) >>,
      << V2(0, 0), V2(0, F(2)), V2(F(2), F(2)), V2(F(2), 0), V2(0, 0) >>,
      << V2(F(-3), F(-3)), V2(F(3), F(-3)), V2(F(3), 0), V2(0, 0),
         V2(0, F(3)), V2(F(-3), F(3)) >>,
      << V2(F(-3), F(-3)), V2(F(-3), F(3)), V2(0, F(3)), V2(0, 0),
         V2(F(3), 0), V2(F(3), F(-3)), V2(F(-3), F(-3)) >>,
      << V2(0, 0), V2(F(2), 0) >> }

PolyNew ==
    \E vertex \in PolyShapes :
        Return("NewPolySDF2", [vertex |-> vertex], NewPolySDF2(vertex))

PolyEvaluate ==
    /\ ~panicked
    /\ node.kind = "PolySDF2"
    /\ \E p \in Points2 :
        /\ call' = [op |-> "Evaluate", args |-> [p |-> p]]
        /\ res' = [kind |-> "value", p |-> p, d |-> Evaluate(node, p)]
    /\ UNCHANGED <<node, panicked, built, blend, frames>>

NextPoly == PolyNew \/ PolyEvaluate

SpecPoly == Init /\ [][NextPoly]_vars

\* ------------------------------------------------------------------------
\* Save3MF: the export of a triangle mesh.  A triangle is the tuple of its
\* three vertices t.V; a Go map is a function on its set of keys; a slice is
\* a function on 0 .. len-1.

\* The vertices of the mesh in the order the loops visit them.
RECURSIVE MeshVertices(_)
MeshVertices(mesh) ==
    IF mesh = << >> THEN << >> ELSE Head(mesh) \o MeshVertices(Tail(mesh))

\* vertices[v] = len(vertices), for the vertices vs[i], vs[i+1], ...
RECURSIVE DedupeLoop(_, _, _)
DedupeLoop(vs, i, vertices) ==
    IF i > Len(vs) THEN vertices
    ELSE LET v == vs[i]
             n == Cardinality(DOMAIN vertices)
         IN DedupeLoop(vs, i + 1,
                       [k \in DOMAIN vertices \cup {v} |->
                            IF k = v THEN n ELSE vertices[k]])

\* The zero value of ThreeMFVertex, which make() fills the slice with.
ZeroVertex == V3(0, 0, 0)

\* outputVertices after the loop over the map, whose order of iteration is
\* not defined: a slot that several keys index holds any one of them, and a
\* slot that none indexes holds the zero value.
OutputVertices(vertices) ==
    LET n == Cardinality(DOMAIN vertices)
        Slot(i) == IF \E v \in DOMAIN vertices : vertices[v] = i
                   THEN {v \in DOMAIN vertices : vertices[v] = i}
                   ELSE {ZeroVertex}
    IN {ov \in [0..(n - 1) -> DOMAIN vertices \cup {ZeroVertex}] :
            \A i \in 0..(n - 1) : ov[i] \in Slot(i)}

OutputTriangles(mesh, vertices) ==
    [i \in 0..(Len(mesh) - 1) |->
        [V1 |-> vertices[mesh[i + 1][1]], V2 |-> vertices[mesh[i + 1][2]],
         V3 |-> vertices[mesh[i + 1][3]]]]

\* The outcomes of Save3MF(path, mesh): the error of os.Create; a panic, when
\* outputVertices[i] is written at an i outside the slice; or the mesh that
\* is encoded.
Save3MF(mesh, created) ==
    IF ~created THEN {[kind |-> "error"]}
    ELSE LET vertices == DedupeLoop(MeshVertices(mesh), 1, << >>)
             n == Cardinality(DOMAIN vertices)
         IN IF \E v \in DOMAIN vertices : vertices[v] >= n
            THEN {[kind |-> "panic", vertices |-> vertices]}
            ELSE {[kind |-> "saved", vertices |-> vertices,
                   outputVertices |-> ov,
                   outputTriangles |-> OutputTriangles(mesh, vertices)] :
                      ov \in OutputVertices(vertices)}

\* The meshes the client exports: up to MaxTriangles triangles on four
\* points, vertices shared between triangles and repeated within one.
MeshPoints == {V3(F(1), 0, 0), V3(0, F(1), 0), V3(0, 0, F(1)), V3(F(1), F(1), 0)}
Triangles == MeshPoints \X MeshPoints \X MeshPoints
Meshes == UNION {[1..n -> Triangles] : n \in 0..MaxTriangles}

\* The client exports one mesh.
CallSave3MF ==
    /\ ~panicked
    /\ call = NoCall
    /\ \E mesh \in Meshes, created \in BOOLEAN :
        \E out \in Save3MF(mesh, created) :
            /\ call' = [op |-> "Save3MF", args |-> [mesh |-> mesh]]
            /\ res' = out
            /\ panicked' = (out.kind = "panic")
    /\ UNCHANGED <<node, built, blend, frames>>

NextMesh == CallSave3MF

SpecMesh == Init /\ [][NextMesh]_vars

\* ------------------------------------------------------------------------
\* Solids of revolution by themselves: the client builds a square profile,
\* revolves it and evaluates the solid at the points of the grid.

\* Square profiles: the box of side 4 about the origin, and the same box
\* moved by 2 along X, away from the axis.  (A box's distance is computed
\* from differences and one root, which the number coding keeps exact in
\* sign at the radii that are roots.)
SorProfile ==
    Return("NewBoxSDF2", [size |-> V2(F(4), F(4)), round |-> 0],
           NewBoxSDF2(V2(F(4), F(4)), 0))

SorShift ==
    /\ node.kind = "BoxSDF2"
    /\ Return("NewTransformSDF2", [sdf |-> node, matrix |-> Translate2d(V2(F(2), 0))],
              NewTransformSDF2(node, Translate2d(V2(F(2), 0))))

SorNew ==
    /\ IsSDF2(node)
    /\ \E theta \in Thetas :
        Return("NewSorThetaSDF3", [sdf |-> node, theta |-> theta],
               NewSorThetaSDF3(node, theta))

SorEvaluate ==
    /\ ~panicked
    /\ node.kind = "SorSDF3"
    /\ \E p \in Points3 :
        /\ call' = [op |-> "Evaluate", args |-> [p |-> p]]
        /\ res' = [kind |-> "value", p |-> p, d |-> Evaluate(node, p)]
    /\ UNCHANGED <<node, panicked, built, blend, frames>>

NextSor == SorProfile \/ SorShift \/ SorNew \/ SorEvaluate

SpecSor == Init /\ [][NextSor]_vars

\* ------------------------------------------------------------------------
\* Cylinders and capsules: the two constructors over small radii and
\* heights, and Evaluate on what they return.

CylRadii == {F(1), F(2)}
CylHeights == {F(2), F(4), F(6)}

CallNewCylinderSDF3 ==
    \E height \in CylHeights, radius \in CylRadii, round \in {0} \cup CylRadii :
        /\ round <= radius
        /\ Return("NewCylinderSDF3",
                  [height |-> height, radius |-> radius, round |-> round],
                  NewCylinderSDF3(height, radius, round))

CallNewCapsuleSDF3 ==
    \E radius \in CylRadii, height \in CylHeights :
        Return("NewCapsuleSDF3", [radius |-> radius, height |-> height],
               NewCapsuleSDF3(radius, height))

CylEvaluate ==
    /\ ~panicked
    /\ node.kind = "CylinderSDF3"
    /\ \E p \in Points3 :
        /\ call' = [op |-> "Evaluate", args |-> [p |-> p]]
        /\ res' = [kind |-> "value", p |-> p, d |-> Evaluate(node, p)]
    /\ UNCHANGED <<node, panicked, built, blend, frames>>

NextCyl == CallNewCylinderSDF3 \/ CallNewCapsuleSDF3 \/ CylEvaluate

SpecCyl == Init /\ [][NextCyl]_vars

\* ------------------------------------------------------------------------
\* Notions the properties are stated with.

Box2Contains(b, p) ==
    /\ b.Min.X <= p.X /\ p.X <= b.Max.X
    /\ b.Min.Y <= p.Y /\ p.Y <= b.Max.Y
Box3Contains(b, p) ==
    /\ b.Min.X <= p.X /\ p.X <= b.Max.X
    /\ b.Min.Y <= p.Y /\ p.Y <= b.Max.Y
    /\ b.Min.Z <= p.Z /\ p.Z <= b.Max.Z
BoxContains(s, p) ==
    IF s.kind \in Kinds2 THEN Box2Contains(s.bb, p) ELSE Box3Contains(s.bb, p)

PointsOf(s) == IF s.kind \in Kinds2 THEN Points2 ELSE Points3

\* Every blend of the tree is the one its constructor installed.
RECURSIVE Unblended(_)
Unblended(s) ==
    /\ "min" \in DOMAIN s => s.min = "NormalMin"
    /\ "max" \in DOMAIN s => s.max = "NormalMax"
    /\ \A i \in DOMAIN Children(s) : Unblended(Children(s)[i])

\* A shape the client can evaluate.
Built(s) == IsNode(s) /\ ~HoldsNil(s)

\* ------------------------------------------------------------------------
\* C1.  Bounding-box soundness: every point at which the shape the client
\* holds (built by any constructor, with the default blends) evaluates to a
\* distance <= 0 lies inside the shape's bounding box.
C1_BoundingBoxSound ==
    (Built(node) /\ Unblended(node)) =>
        \A p \in PointsOf(node) : Evaluate(node, p) <= 0 => BoxContains(node, p)

\* ------------------------------------------------------------------------
\* The blend in force is the exact min (max): no setter has been called on
\* the shape since it was built, or the last one installed the exact one.
DefaultBlend == blend.f \in {"default", "NormalMin", "NormalMax"}

Evaluated == res.kind = "value"

\* ------------------------------------------------------------------------
\* C2.  With the default min, a union evaluates at every point to the
\* minimum of its two children's distances, and the union of the same
\* children in the other order evaluates to the same value (2D and 3D); the
\* distance the client's Evaluate call returned is that minimum.
C2_UnionIsMin ==
    (node.kind \in {"UnionSDF2", "UnionSDF3"} /\ Built(node) /\ DefaultBlend) =>
        LET swapped == IF node.kind = "UnionSDF2"
                       THEN NewUnionSDF2(node.s1, node.s0)
                       ELSE NewUnionSDF3(node.s1, node.s0)
        IN /\ \A p \in PointsOf(node) :
                /\ Evaluate(node, p) = Min(Evaluate(node.s0, p), Evaluate(node.s1, p))
                /\ Evaluate(swapped, p) = Evaluate(node, p)
           /\ Evaluated =>
                res.d = Min(Evaluate(node.s0, res.p), Evaluate(node.s1, res.p))

\* A 2D union was evaluated where its second child is the nearer one.
C2_Witness ==
    /\ node.kind = "UnionSDF2" /\ blend.f = "default" /\ Evaluated
    /\ Evaluate(node.s1, res.p) < Evaluate(node.s0, res.p)
    /\ res.d = Evaluate(node.s1, res.p)

\* ------------------------------------------------------------------------
\* C3.  With the default max, a difference evaluates at every point to the
\* maximum of the first child's distance and the negated distance of the
\* second (2D and 3D), and so does the client's Evaluate call.
C3_DifferenceIsMax ==
    (node.kind \in {"DifferenceSDF2", "DifferenceSDF3"} /\ Built(node)
     /\ DefaultBlend) =>
        /\ \A p \in PointsOf(node) :
             Evaluate(node, p) = Max(Evaluate(node.s0, p), -Evaluate(node.s1, p))
        /\ Evaluated =>
             res.d = Max(Evaluate(node.s0, res.p), -Evaluate(node.s1, res.p))

\* Not commutative: a difference was evaluated at a point where the
\* difference of the same children in the other order has another distance.
C3_Witness ==
    /\ node.kind = "DifferenceSDF2" /\ blend.f = "default" /\ Evaluated
    /\ res.d = Max(Evaluate(node.s0, res.p), -Evaluate(node.s1, res.p))
    /\ Evaluate(NewDifferenceSDF2(node.s1, node.s0), res.p) # res.d

\* ------------------------------------------------------------------------
\* C4.  Transform round trip: a transform node built from a shape and an
\* invertible matrix M, evaluated at M applied to p, returns the shape's
\* distance at p; the client's Evaluate call returns the child's distance at
\* the query point pulled back through the stored inverse of M (2D and 3D).
C4_TransformRoundTrip ==
    /\ (node.kind = "TransformSDF2" /\ Built(node)
        /\ M33Determinant(node.matrix) # 0) =>
          /\ node.inverse = M33Inverse(node.matrix)
          /\ \A p \in Points2 :
               Evaluate(node, M33MulPosition(node.matrix, p)) = Evaluate(node.sdf, p)
          /\ Evaluated =>
               res.d = Evaluate(node.sdf, M33MulPosition(M33Inverse(node.matrix), res.p))
    /\ (node.kind = "TransformSDF3" /\ Built(node)
        /\ M44Determinant(node.matrix) # 0) =>
          /\ node.inverse = M44Inverse(node.matrix)
          /\ \A p \in Points3 :
               Evaluate(node, M44MulPosition(node.matrix, p)) = Evaluate(node.sdf, p)
          /\ Evaluated =>
               res.d = Evaluate(node.sdf, M44MulPosition(M44Inverse(node.matrix), res.p))

\* A 2D transform was evaluated at the image M q of a point q, where the
\* untransformed child has another distance.
C4_Witness ==
    /\ node.kind = "TransformSDF2" /\ Evaluated
    /\ res.d # Evaluate(node.sdf, res.p)
    /\ \E q \in Points2 :
         /\ M33MulPosition(node.matrix, q) = res.p
         /\ res.d = Evaluate(node.sdf, q)

\* ------------------------------------------------------------------------
\* C5.  A constructor that fails returns nil and nothing else: NewPolySDF2
\* on fewer than 3 vertices, and the array, rotate and rotate-copy
\* constructors on a count <= 0; on every other vertex list and, given a
\* shape, every other count, they return a node.
ArrayCountBad(num) == \E i \in DOMAIN num : num[i] <= 0

C5_FailureIsNil ==
    /\ call.op = "NewPolySDF2" =>
         IF Len(call.args.vertex) < 3 THEN call.ret = Nil
         ELSE call.ret.kind = "PolySDF2"
    /\ call.op \in {"NewArraySDF2", "NewArraySDF3"} =>
         IF ArrayCountBad(call.args.num) THEN call.ret = Nil
         ELSE IsNode(call.args.sdf) => call.ret.kind \in {"ArraySDF2", "ArraySDF3"}
    /\ call.op \in {"NewRotateSDF2", "NewRotateSDF3", "NewRotateCopySDF2"} =>
         IF call.args.num <= 0 THEN call.ret = Nil
         ELSE IsNode(call.args.sdf) =>
                call.ret.kind \in {"RotateSDF2", "RotateSDF3", "RotateCopySDF2"}

\* NewArraySDF2 was given a shape and a second count of 0, and returned nil.
C5_Witness ==
    /\ call.op = "NewArraySDF2"
    /\ IsNode(call.args.sdf)
    /\ call.args.num[1] > 0 /\ call.args.num[2] <= 0
    /\ call.ret = Nil /\ node = Nil

\* ------------------------------------------------------------------------
\* C6.  A failed child is never silently absorbed: when a constructor has
\* failed (returned nil) and the client's next call builds a union or a
\* difference with a nil s0 or s1, that call returns nil too: neither a
\* shape that hides the failure, nor a node holding nil, nor a panic.
FailingOps == {"NewPolySDF2", "NewArraySDF2", "NewArraySDF3", "NewRotateSDF2",
               "NewRotateSDF3", "NewRotateCopySDF2"}
ComposeOps == {"NewUnionSDF2", "NewDifferenceSDF2", "NewUnionSDF3",
               "NewDifferenceSDF3"}

C6_FailedChildNotAbsorbed ==
    [][(/\ call.op \in FailingOps /\ call.ret = Nil
        /\ call'.op \in ComposeOps
        /\ (call'.args.s0 = Nil \/ call'.args.s1 = Nil))
       => call'.ret = Nil]_vars

\* ------------------------------------------------------------------------
\* C7.  Setters change only the blend configuration: after any sequence of
\* SetMin / SetMax calls the shape is the one its constructor returned
\* (bounding box, children and every other field), except that its blend
\* function and k are those of the last setter call; and an Evaluate call
\* returns the blend, by that function and k (the exact min or max and k = 0
\* when no setter was called), of the children's distances.
BlendF(s) ==
    IF blend.f # "default" THEN blend.f
    ELSE IF "min" \in DOMAIN s THEN "NormalMin" ELSE "NormalMax"

Configured(s) ==
    IF "min" \in DOMAIN s
    THEN [s EXCEPT !.min = BlendF(s), !.k = blend.k]
    ELSE IF "max" \in DOMAIN s
    THEN [s EXCEPT !.max = BlendF(s), !.k = blend.k]
    ELSE s

C7_SettersChangeOnlyBlend ==
    IsNode(node) =>
        /\ node.bb = built.bb
        /\ Children(node) = Children(built)
        /\ node = Configured(built)
        /\ (Evaluated /\ Built(node)) =>
             /\ res.d = Evaluate(Configured(built), res.p)
             /\ node.kind \in {"UnionSDF2", "UnionSDF3"} =>
                  res.d = CallMin(BlendF(built), Evaluate(built.s0, res.p),
                                  Evaluate(built.s1, res.p), blend.k)
             /\ node.kind \in {"DifferenceSDF2", "DifferenceSDF3"} =>
                  res.d = CallMax(BlendF(built), Evaluate(built.s0, res.p),
                                  -Evaluate(built.s1, res.p), blend.k)

\* A union whose blend a setter has replaced was evaluated, and the distance
\* is not the one the shape had as built.
C7_Witness ==
    /\ node.kind = "UnionSDF2" /\ blend.f = "RoundMin" /\ Evaluated
    /\ node.bb = built.bb
    /\ res.d # Evaluate(built, res.p)

\* ------------------------------------------------------------------------
\* C9.  With the default min, an array evaluates at every point p to the
\* least, over the cells (i, j[, k]) with 0 <= index < count on each axis,
\* of the base shape's distance at p - (i*stepX, j*stepY[, k*stepZ]); with
\* count (1, 1[, 1]) it evaluates as the base shape does.
Least(S) == CHOOSE x \in S : \A y \in S : x <= y

ArrayCells2(s, p) ==
    { Evaluate2(s.sdf, V2Sub(p, V2(Mul(F(i), s.step.X), Mul(F(j), s.step.Y)))) :
        i \in 0..(s.num[1] - 1), j \in 0..(s.num[2] - 1) }
ArrayCells3(s, p) ==
    { Evaluate3(s.sdf, V3Sub(p, V3(Mul(F(c[1]), s.step.X), Mul(F(c[2]), s.step.Y),
                                   Mul(F(c[3]), s.step.Z)))) :
        c \in (0..(s.num[1] - 1)) \X (0..(s.num[2] - 1)) \X (0..(s.num[3] - 1)) }
ArrayCells(s, p) ==
    IF s.kind = "ArraySDF2" THEN ArrayCells2(s, p) ELSE ArrayCells3(s, p)

C9_ArrayIsLeastCell ==
    (node.kind \in {"ArraySDF2", "ArraySDF3"} /\ Built(node) /\ DefaultBlend) =>
        /\ \A p \in PointsOf(node) :
             /\ Evaluate(node, p) = Least(ArrayCells(node, p))
             /\ (\A i \in DOMAIN node.num : node.num[i] = 1) =>
                  Evaluate(node, p) = Evaluate(node.sdf, p)
        /\ Evaluated => res.d = Least(ArrayCells(node, res.p))

\* A 2D array was evaluated where a cell other than the first is nearest.
C9_Witness ==
    /\ node.kind = "ArraySDF2" /\ blend.f = "default" /\ Evaluated
    /\ res.d = Least(ArrayCells(node, res.p))
    /\ res.d < Evaluate(node.sdf, res.p)

\* ------------------------------------------------------------------------
\* C10.  A rotate-copy node built with N copies evaluates to the same
\* distance at p and at p rotated about the origin by any multiple m of
\* 2 pi / N (N = 1, 2, 4; m = -4 .. 4).
C10_RotateCopyInvariant ==
    (node.kind = "RotateCopySDF2" /\ Built(node)) =>
        \A m \in (-TAU)..TAU :
            LET rot == Rotate2d(m * node.theta)
            IN /\ \A p \in Points2 :
                    Evaluate(node, M33MulPosition(rot, p)) = Evaluate(node, p)
               /\ Evaluated => Evaluate(node, M33MulPosition(rot, res.p)) = res.d

\* A rotate-copy of 4 copies was evaluated outside the first sector, where
\* the base shape itself has another distance.
C10_Witness ==
    /\ node.kind = "RotateCopySDF2" /\ node.theta = 1 /\ Evaluated
    /\ (res.p.X < 0 \/ res.p.Y < 0)
    /\ res.d # Evaluate(node.sdf, res.p)
    /\ res.d = Evaluate(node, M33MulPosition(Rotate2d(1), res.p))

\* ------------------------------------------------------------------------
\* C8.  Evaluation is pure: under every interleaving of the steps of
\* concurrent Evaluate calls on a shared shape, the shape stays field for
\* field the one that was shared, every call returns the distance that
\* Evaluate gives at its point when run alone, and two calls at the same
\* point return the same distance.
C8_EvaluateIsPure ==
    /\ node = built
    /\ \A c \in Callers :
         frames[c].pc = "return" =>
           /\ frames[c].d = Evaluate(node, frames[c].p)
           /\ (Evaluated /\ res.p = frames[c].p) => res.d = frames[c].d
    /\ Evaluated => res.d = Evaluate(node, res.p)

\* A call on a blended rotate node returns while another call is inside its
\* loop, steps of the two having interleaved, and an earlier call at the same
\* point returned the same distance.
C8_Witness ==
    /\ node.kind = "RotateSDF2" /\ node.min = "RoundMin"
    /\ \E c, o \in Callers :
         /\ c # o
         /\ frames[c].pc = "return" /\ frames[c].mixed
         /\ frames[o].pc = "loop" /\ frames[o].i = 1 /\ frames[o].mixed
         /\ frames[o].p # frames[c].p
         /\ Evaluated /\ res.p = frames[c].p /\ res.d = frames[c].d
         /\ frames[c].d # Evaluate(node.sdf, frames[c].p)

\* ------------------------------------------------------------------------
\* C11.  For a simple closed polygon (closed by the constructor when its
\* first and last vertex differ) and every point p, the magnitude of
\* PolySDF2.Evaluate(p) is the distance from p to the nearest edge segment,
\* and off the boundary the value is negative exactly when p is interior and
\* positive otherwise; the square (0,0),(2,0),(2,2),(0,2) gives -1 at (1,1)
\* and sqrt(8) at (4,4) (the square of side 1 of the example, doubled).

\* The squared distance from p to the axis-aligned segment a-b: to the point
\* of the segment nearest p.
SegmentDist2(a, b, p) ==
    LET qx == Max(Min(a.X, b.X), Min(p.X, Max(a.X, b.X)))
        qy == Max(Min(a.Y, b.Y), Min(p.Y, Max(a.Y, b.Y)))
    IN Mul(p.X - qx, p.X - qx) + Mul(p.Y - qy, p.Y - qy)

EdgeDist(vertex, p) ==
    Sqrt(Least({SegmentDist2(vertex[i], vertex[i + 1], p) :
                    i \in 1..(Len(vertex) - 1)}))

\* p is interior by the crossing rule: a ray from p to the right crosses an
\* odd number of edges.
Interior(vertex, p) ==
    Cardinality({i \in 1..(Len(vertex) - 1) :
        LET a == vertex[i]
            b == vertex[i + 1]
        IN /\ a.X = b.X /\ a.X > p.X
           /\ Min(a.Y, b.Y) <= p.Y /\ p.Y < Max(a.Y, b.Y)}) % 2 = 1

PolyAgrees(s, p, d) ==
    /\ Abs(d) = EdgeDist(s.vertex, p)
    /\ EdgeDist(s.vertex, p) # 0 => (d < 0 <=> Interior(s.vertex, p))

C11_PolygonDistance ==
    /\ node.kind = "PolySDF2" =>
         /\ node.vertex[1] = node.vertex[Len(node.vertex)]
         /\ \A p \in Points2 : PolyAgrees(node, p, Evaluate(node, p))
         /\ Evaluated => PolyAgrees(node, res.p, res.d)
    /\ LET square == NewPolySDF2(<< V2(0, 0), V2(F(2), 0), V2(F(2), F(2)),
                                    V2(0, F(2)) >>)
       IN /\ Evaluate(square, V2(F(1), F(1))) = F(-1)
          /\ Evaluate(square, V2(F(4), F(4))) = Sqrt(F(8))

\* The open square was closed by the constructor and evaluated at (3,3):
\* outside, past the ends of its segments, at distance sqrt(2) from the
\* vertex (2,2).
C11_Witness ==
    /\ node.kind = "PolySDF2" /\ call.op = "Evaluate"
    /\ Len(node.vertex) = 5 /\ node.vertex[2] = V2(F(2), 0)
    /\ Evaluated /\ res.p = V2(F(3), F(3)) /\ res.d = Sqrt(F(2))
    /\ ~Interior(node.vertex, res.p)

\* ------------------------------------------------------------------------
\* C12.  A solid of revolution of a square profile built with theta = pi is
\* the half of the full solid with y >= 0.  As stated: it is symmetric under
\* the rotation by 180 degrees about Z, Evaluate((x,y,z)) and
\* Evaluate((-x,-y,z)) having the same sign at every point.
Sign(d) == IF d < 0 THEN -1 ELSE IF d > 0 THEN 1 ELSE 0
RotateHalf(p) == V3(-p.X, -p.Y, p.Z)
MirrorX(p) == V3(-p.X, p.Y, p.Z)
HalfTurnSor == node.kind = "SorSDF3" /\ node.theta = PI

C12_HalfTurnSymmetric ==
    HalfTurnSor =>
        \A p \in Points3 :
            Sign(Evaluate(node, p)) = Sign(Evaluate(node, RotateHalf(p)))

\* C12, amended.  The solid built with theta = pi is symmetric under the
\* reflection x -> -x, Evaluate((x,y,z)) = Evaluate((-x,y,z)), and not under
\* the rotation by 180 degrees about Z: it has points inside it, every point
\* inside it has y > 0, and the rotated point (-x,-y,z) is outside it.
HalfTurnAt(p, d) ==
    /\ d = Evaluate(node, MirrorX(p))
    /\ d < 0 => (p.Y > 0 /\ Evaluate(node, RotateHalf(p)) > 0)

C12_HalfTurnMirror ==
    HalfTurnSor =>
        /\ \A p \in Points3 : HalfTurnAt(p, Evaluate(node, p))
        /\ \E p \in Points3 : Evaluate(node, p) < 0
        /\ Evaluated => HalfTurnAt(res.p, res.d)

\* The half-turn solid of the box was evaluated at a point inside it, off the
\* plane x = 0, whose rotated point is outside.
C12_Witness ==
    /\ HalfTurnSor /\ node.sdf.kind = "BoxSDF2" /\ Evaluated
    /\ res.p.X # 0 /\ res.p.Y > 0 /\ res.d < 0
    /\ Evaluate(node, RotateHalf(res.p)) > 0
    /\ Evaluate(node, MirrorX(res.p)) = res.d

\* ------------------------------------------------------------------------
\* C13.  Box well-formedness: the bounding box cached by every node of the
\* shape the client holds has min <= max on every component, whatever inputs
\* the constructors accepted (a negative extrusion height and a negative
\* offset among them).
BoxWellFormed(s) ==
    /\ s.bb.Min.X <= s.bb.Max.X
    /\ s.bb.Min.Y <= s.bb.Max.Y
    /\ s.kind \in Kinds3 => s.bb.Min.Z <= s.bb.Max.Z

RECURSIVE BoxesWellFormed(_)
BoxesWellFormed(s) ==
    IsNode(s) =>
        /\ BoxWellFormed(s)
        /\ \A i \in DOMAIN Children(s) : BoxesWellFormed(Children(s)[i])

C13_BoxWellFormed == BoxesWellFormed(node)

\* ------------------------------------------------------------------------
\* C14.  Save3MF's vertex deduplication is index-consistent for every mesh,
\* meshes that repeat a vertex included: the call does not panic, the
\* distinct vertices have distinct indices in [0, D), D the number of
\* distinct vertices, the output has D vertices of which entry i is the
\* vertex indexed i, and the V1, V2, V3 of each output triangle index the
\* coordinates of that triangle's own three vertices.
MeshOf(c) == c.args.mesh
Distinct(mesh) == {MeshVertices(mesh)[i] : i \in 1..Len(MeshVertices(mesh))}

C14_DedupeConsistent ==
    (call.op = "Save3MF" /\ res.kind # "error") =>
        LET mesh == MeshOf(call)
            D == Cardinality(Distinct(mesh))
        IN /\ res.kind = "saved"
           /\ DOMAIN res.vertices = Distinct(mesh)
           /\ \A v \in Distinct(mesh) : res.vertices[v] \in 0..(D - 1)
           /\ \A v, w \in Distinct(mesh) :
                res.vertices[v] = res.vertices[w] => v = w
           /\ DOMAIN res.outputVertices = 0..(D - 1)
           /\ \A v \in Distinct(mesh) : res.outputVertices[res.vertices[v]] = v
           /\ \A i \in 0..(Len(mesh) - 1) :
                LET t == res.outputTriangles[i]
                IN /\ t.V1 \in 0..(D - 1) /\ res.outputVertices[t.V1] = mesh[i + 1][1]
                   /\ t.V2 \in 0..(D - 1) /\ res.outputVertices[t.V2] = mesh[i + 1][2]
                   /\ t.V3 \in 0..(D - 1) /\ res.outputVertices[t.V3] = mesh[i + 1][3]

\* ------------------------------------------------------------------------
\* C15.  NewCapsuleSDF3(radius, height) is the cylinder of that height and
\* radius rounded by the radius: it returns what
\* NewCylinderSDF3(height, radius, radius) returns, its bounding box is
\* [-radius, -radius, -height/2] .. [radius, radius, height/2], and Evaluate
\* on it gives that cylinder's distance at every point.
CapsuleAsCylinder(c) ==
    NewCylinderSDF3(c.args.height, c.args.radius, c.args.radius)
CapsuleBox(c) ==
    LET d == V3(c.args.radius, c.args.radius, Div(c.args.height, F(2)))
    IN Box3(V3Negate(d), d)

C15_CapsuleIsRoundedCylinder ==
    call.op = "NewCapsuleSDF3" =>
        /\ call.ret = CapsuleAsCylinder(call)
        /\ call.ret.bb = CapsuleBox(call)
        /\ \A p \in Points3 :
            Evaluate(call.ret, p) = Evaluate(CapsuleAsCylinder(call), p)

====
